---- MODULE Spec2Model ----
(***************************************************************************)
(* The LMS (RFC 8554) Merkle-tree layer of library/lms.c: public and       *)
(* private contexts, key generation, signing, verification and the wire    *)
(* framing of keys and signatures.  The LMOTS primitive, the hash and the  *)
(* byte codec live in other translation units and are modelled at their    *)
(* interface; SHA-256 is modelled as a collision-free term constructor.    *)
(***************************************************************************)
EXTENDS Integers, Sequences, FiniteSets, TLC

(* ------------------------------ bounds --------------------------------- *)

\* Tree height of the one accepted parameter set (10 in the library).
H_TREE_HEIGHT == 2

\* Collaborator failures (allocation, one-time scheme, hash) in one run.
MaxFaults == 1

\* Messages a caller signs or verifies.
Msgs == {"m1", "m2"}
\* Key identifiers the RNG callback can deliver for I.
Ids == {"i1", "i2"}
\* Seeds handed to key generation.
Seeds == {"s1"}

(* --------------------- algorithm identifiers, lengths ------------------ *)

MBEDTLS_LMS_SHA256_M32_H10 == 6
MBEDTLS_LMOTS_SHA256_N32_W8 == 4
\* Identifiers that are not accepted (the H5 tree, the W4 one-time scheme).
LMS_SHA256_M32_H5 == 5
LMOTS_SHA256_N32_W4 == 3

MBEDTLS_LMS_TYPE_LEN == 4
MBEDTLS_LMOTS_TYPE_LEN == 4
MBEDTLS_LMOTS_Q_LEAF_ID_LEN == 4
MBEDTLS_LMOTS_I_KEY_ID_LEN == 16
MBEDTLS_LMOTS_SIG_TYPE_OFFSET == 0

MBEDTLS_LMS_H_TREE_HEIGHT(type) ==
    IF type = MBEDTLS_LMS_SHA256_M32_H10 THEN H_TREE_HEIGHT ELSE 0
MBEDTLS_LMS_M_NODE_BYTES(type) ==
    IF type = MBEDTLS_LMS_SHA256_M32_H10 THEN 32 ELSE 0
MBEDTLS_LMOTS_N_HASH_LEN(otstype) ==
    IF otstype = MBEDTLS_LMOTS_SHA256_N32_W8 THEN 32 ELSE 0
MBEDTLS_LMOTS_SIG_LEN(otstype) ==
    IF otstype = MBEDTLS_LMOTS_SHA256_N32_W8 THEN 1136 ELSE MBEDTLS_LMOTS_TYPE_LEN
MBEDTLS_LMS_SIG_LEN(type, otstype) ==
    MBEDTLS_LMOTS_Q_LEAF_ID_LEN + MBEDTLS_LMOTS_SIG_LEN(otstype)
    + MBEDTLS_LMS_TYPE_LEN
    + MBEDTLS_LMS_H_TREE_HEIGHT(type) * MBEDTLS_LMS_M_NODE_BYTES(type)
MBEDTLS_LMS_PUBLIC_KEY_LEN(type) ==
    MBEDTLS_LMS_TYPE_LEN + MBEDTLS_LMOTS_TYPE_LEN + MBEDTLS_LMOTS_I_KEY_ID_LEN
    + MBEDTLS_LMS_M_NODE_BYTES(type)

SIG_Q_LEAF_ID_OFFSET == 0
SIG_OTS_SIG_OFFSET == SIG_Q_LEAF_ID_OFFSET + MBEDTLS_LMOTS_Q_LEAF_ID_LEN
SIG_TYPE_OFFSET(otstype) == SIG_OTS_SIG_OFFSET + MBEDTLS_LMOTS_SIG_LEN(otstype)
SIG_PATH_OFFSET(otstype) == SIG_TYPE_OFFSET(otstype) + MBEDTLS_LMS_TYPE_LEN

PUBLIC_KEY_TYPE_OFFSET == 0
PUBLIC_KEY_OTSTYPE_OFFSET == PUBLIC_KEY_TYPE_OFFSET + MBEDTLS_LMS_TYPE_LEN
PUBLIC_KEY_I_KEY_ID_OFFSET == PUBLIC_KEY_OTSTYPE_OFFSET + MBEDTLS_LMOTS_TYPE_LEN
\* A root laid over the key identifier.
PUBLIC_KEY_ROOT_NODE_OFFSET_overlapping == PUBLIC_KEY_OTSTYPE_OFFSET + MBEDTLS_LMOTS_TYPE_LEN
PUBLIC_KEY_ROOT_NODE_OFFSET == PUBLIC_KEY_I_KEY_ID_OFFSET + MBEDTLS_LMOTS_I_KEY_ID_LEN

MERKLE_TREE_NODE_AM(type) == 2 ^ (MBEDTLS_LMS_H_TREE_HEIGHT(type) + 1)
MERKLE_TREE_LEAF_NODE_AM(type) == 2 ^ MBEDTLS_LMS_H_TREE_HEIGHT(type)
MERKLE_TREE_INTERNAL_NODE_AM(type) == 2 ^ MBEDTLS_LMS_H_TREE_HEIGHT(type)

D_LEAF_CONSTANT_BYTES == <<130, 130>>
D_INTR_CONSTANT_BYTES == <<131, 131>>

(* ------------------------------ error codes ---------------------------- *)

\* The return value 0.
OK == "OK"

MBEDTLS_ERR_LMS_BAD_INPUT_DATA == "BAD_INPUT_DATA"
MBEDTLS_ERR_LMS_OUT_OF_PRIVATE_KEYS == "OUT_OF_PRIVATE_KEYS"
MBEDTLS_ERR_LMS_VERIFY_FAILED == "VERIFY_FAILED"
MBEDTLS_ERR_LMS_ALLOC_FAILED == "ALLOC_FAILED"
MBEDTLS_ERR_LMS_BUFFER_TOO_SMALL == "BUFFER_TOO_SMALL"
\* What mbedtls_lms_error_from_psa makes of a failed hash operation.
InternalCryptoError == "INTERNAL_CRYPTO_ERROR"

(* ------------------------------ wire codec ----------------------------- *)

\* Big-endian bytes of n, len of them.
unsigned_int_to_network_bytes(n, len) ==
    [i \in 1..len |-> (n \div (256 ^ (len - i))) % 256]

RECURSIVE BytesValue(_, _)
BytesValue(bytes, k) ==
    IF k = 0 THEN 0 ELSE 256 * BytesValue(bytes, k - 1) + bytes[k]

network_bytes_to_unsigned_int(len, bytes) == BytesValue(bytes, len)

(* ------------------------------ node hasher ---------------------------- *)

\* H(I || r || D_LEAF || K): the hash input as a term, so distinct inputs
\* give distinct nodes.
create_merkle_leaf_value(params, pub_key, r_node_idx) ==
    << "leaf", params.I_key_identifier,
       unsigned_int_to_network_bytes(r_node_idx, 4),
       D_LEAF_CONSTANT_BYTES, pub_key >>

\* H(I || r || D_INTR || T[2r] || T[2r+1]).
create_merkle_internal_value(params, left_node, right_node, r_node_idx) ==
    << "intr", params.I_key_identifier,
       unsigned_int_to_network_bytes(r_node_idx, 4),
       D_INTR_CONSTANT_BYTES, left_node, right_node >>

(* ------------------- LMOTS collaborator (interface) -------------------- *)

\* A zeroised byte string (a scrubbed or never-written buffer).
Zero == <<>>
\* The all-zero key identifier of a zeroised context.
NoId == "i0"

\* mbedtls_lmots_init_private / mbedtls_lmots_free_private: the slot zeroised.
lmots_zero_private == [have_private_key |-> FALSE, private_key |-> Zero]
\* mbedtls_lmots_init_public / mbedtls_lmots_free_public.
lmots_zero_public == [have_public_key |-> FALSE, public_key |-> Zero]

\* The one-time private key for leaf q of identifier I, derived from the seed.
lmots_generate_private_key(I, q, seed) ==
    [have_private_key |-> TRUE, private_key |-> <<"x", I, q, seed>>]

\* The one-time public key K of a private key (the hash of its chain ends).
lmots_calculate_public_key(priv_slot) ==
    [have_public_key |-> TRUE,
     public_key |-> <<"K", priv_slot.private_key[2], priv_slot.private_key[3],
                      priv_slot.private_key[4]>>]

\* A one-time signature region holding zero bytes.
lmots_zero_signature ==
    [type |-> unsigned_int_to_network_bytes(0, MBEDTLS_LMOTS_TYPE_LEN), y |-> Zero]

\* The one-time signature of msg: its type field, then the chain values, which
\* depend on the key and on the message.
lmots_signature(priv_slot, msg) ==
    [type |-> unsigned_int_to_network_bytes(MBEDTLS_LMOTS_SHA256_N32_W8,
                                            MBEDTLS_LMOTS_TYPE_LEN),
     y |-> <<"y", priv_slot.private_key[2], priv_slot.private_key[3],
             priv_slot.private_key[4], msg>>]

\* mbedtls_lmots_sign: fails with ots_ret when the collaborator fails, refuses a
\* slot without key material, and otherwise signs and scrubs the slot.
lmots_sign(priv_slot, msg, ots_ret) ==
    IF ots_ret # OK
    THEN [ret |-> ots_ret, slot |-> priv_slot, sig |-> lmots_zero_signature]
    ELSE IF ~priv_slot.have_private_key
    THEN [ret |-> MBEDTLS_ERR_LMS_BAD_INPUT_DATA, slot |-> priv_slot,
          sig |-> lmots_zero_signature]
    ELSE [ret |-> OK, slot |-> lmots_zero_private,
          sig |-> lmots_signature(priv_slot, msg)]

\* mbedtls_lmots_calculate_public_key_candidate: completing the hash chains of
\* a signature made for (I, q, msg) gives the signer's K; of anything else, a
\* value no signer has.
lmots_calculate_public_key_candidate(ots_params, msg, ots_sig) ==
    LET q == network_bytes_to_unsigned_int(MBEDTLS_LMOTS_Q_LEAF_ID_LEN,
                                           ots_params.q_leaf_identifier)
        y == ots_sig.y
    IN  IF /\ Len(y) = 5
           /\ y[1] = "y"
           /\ y[2] = ots_params.I_key_identifier
           /\ y[3] = q
           /\ y[5] = msg
        THEN <<"K", y[2], y[3], y[4]>>
        ELSE <<"Kc", ots_params.I_key_identifier, q, msg, y>>

(* ------------------------------ contexts ------------------------------- *)

ZeroParams == [type |-> 0, otstype |-> 0, I_key_identifier |-> NoId]

\* mbedtls_lms_public_t after mbedtls_platform_zeroize.
ZeroPublic ==
    [params |-> ZeroParams, T_1_pub_key |-> Zero, have_public_key |-> FALSE]

\* A heap array of one-time contexts: the pointer held by the context ("null",
\* "live", or "freed" when it dangles) and what the memory holds.
NullArray == [ptr |-> "null", slots |-> <<>>]

\* mbedtls_lms_private_t after mbedtls_platform_zeroize.
ZeroPrivate ==
    [params |-> ZeroParams, q_next_usable_key |-> 0,
     ots_private_keys |-> NullArray, ots_public_keys |-> NullArray,
     have_private_key |-> FALSE]

\* mbedtls_calloc of n one-time contexts: zero-filled memory.
mbedtls_calloc(n, zero_slot) == [ptr |-> "live", slots |-> [i \in 0..(n - 1) |-> zero_slot]]

\* mbedtls_free: free(NULL) does nothing, live memory is released with its
\* contents as they are, and a dangling pointer is freed a second time.
mbedtls_free(arr) == IF arr.ptr = "live" THEN [arr EXCEPT !.ptr = "freed"] ELSE arr

(* ------------------------------ tree builder --------------------------- *)

\* Node indexes at which the hash primitive is made to fail: nowhere (0), at
\* the root (the last hash of the tree), or at the first or last leaf.
HashFaults(type) ==
    {0, 1, MERKLE_TREE_INTERNAL_NODE_AM(type), MERKLE_TREE_NODE_AM(type) - 1}

\* calculate_merkle_tree: the leaves in ascending order, then the internal
\* nodes in descending order; the first failing hash ends it with its error.
calculate_merkle_tree(ctx, hfail) ==
    LET n == MERKLE_TREE_INTERNAL_NODE_AM(ctx.params.type)
        leaves == [r \in n..(2 * n - 1) |->
                      create_merkle_leaf_value(ctx.params,
                          ctx.ots_public_keys.slots[r - n].public_key, r)]
        RECURSIVE internal(_, _)
        internal(tree, r) ==
            IF r = 0 THEN tree
            ELSE internal((r :> create_merkle_internal_value(ctx.params,
                                    tree[r * 2], tree[r * 2 + 1], r)) @@ tree,
                          r - 1)
    IN  IF hfail # 0
        THEN [ret |-> InternalCryptoError, tree |-> <<>>]
        ELSE [ret |-> OK, tree |-> internal(leaves, n - 1)]

RECURSIVE ShiftRight(_, _)
ShiftRight(x, k) == IF k = 0 THEN x ELSE ShiftRight(x \div 2, k - 1)

\* A path that takes the node itself where its sibling belongs.
Xor1_same(x) == x

\* x ^ 1: the sibling of node x.
Xor1(x) == IF x % 2 = 0 THEN x + 1 ELSE x - 1

\* get_merkle_path: the siblings of the nodes from the leaf up, one per height.
get_merkle_path(ctx, leaf_node_id, hfail) ==
    LET t == calculate_merkle_tree(ctx, hfail)
    IN  IF t.ret # OK
        THEN [ret |-> t.ret, path |-> <<>>]
        ELSE [ret |-> OK,
              path |-> [height \in 0..(MBEDTLS_LMS_H_TREE_HEIGHT(ctx.params.type) - 1)
                          |-> t.tree[Xor1(ShiftRight(leaf_node_id, height))]]]

(* ------------------------------ buffers -------------------------------- *)

\* A signature buffer: what lies at each field's offset.
SigPathOffset(height) ==
    SIG_PATH_OFFSET(MBEDTLS_LMOTS_SHA256_N32_W8)
    + height * MBEDTLS_LMS_M_NODE_BYTES(MBEDTLS_LMS_SHA256_M32_H10)

SigOffsets ==
    {SIG_Q_LEAF_ID_OFFSET, SIG_OTS_SIG_OFFSET,
     SIG_TYPE_OFFSET(MBEDTLS_LMOTS_SHA256_N32_W8)}
    \cup {SigPathOffset(h) : h \in 0..(H_TREE_HEIGHT - 1)}

\* The caller's signature buffer before anything is written to it.
ZeroSig ==
    [o \in SigOffsets |->
        IF o = SIG_Q_LEAF_ID_OFFSET
        THEN unsigned_int_to_network_bytes(0, MBEDTLS_LMOTS_Q_LEAF_ID_LEN)
        ELSE IF o = SIG_OTS_SIG_OFFSET THEN lmots_zero_signature
        ELSE IF o = SIG_TYPE_OFFSET(MBEDTLS_LMOTS_SHA256_N32_W8)
        THEN unsigned_int_to_network_bytes(0, MBEDTLS_LMS_TYPE_LEN)
        ELSE Zero]

\* A public-key buffer: what lies at each field's offset.
KeyOffsets ==
    {PUBLIC_KEY_TYPE_OFFSET, PUBLIC_KEY_OTSTYPE_OFFSET,
     PUBLIC_KEY_I_KEY_ID_OFFSET, PUBLIC_KEY_ROOT_NODE_OFFSET}

KeyBytes(type, otstype, I, T1) ==
    [o \in KeyOffsets |->
        IF o = PUBLIC_KEY_TYPE_OFFSET
        THEN unsigned_int_to_network_bytes(type, MBEDTLS_LMS_TYPE_LEN)
        ELSE IF o = PUBLIC_KEY_OTSTYPE_OFFSET
        THEN unsigned_int_to_network_bytes(otstype, MBEDTLS_LMOTS_TYPE_LEN)
        ELSE IF o = PUBLIC_KEY_I_KEY_ID_OFFSET THEN I
        ELSE T1]

\* The caller's key buffer before anything is written to it.
ZeroKey == KeyBytes(0, 0, NoId, Zero)

(* ------------------------------ public keys ---------------------------- *)

\* mbedtls_lms_import_public_key.  The length is checked against the length
\* for the type the context holds on entry; a shorter buffer that passes is
\* read past its end for the root, and those bytes are what over_read says.
mbedtls_lms_import_public_key(ctx, key, key_size, over_read) ==
    LET type == network_bytes_to_unsigned_int(MBEDTLS_LMS_TYPE_LEN,
                                              key[PUBLIC_KEY_TYPE_OFFSET])
        otstype == network_bytes_to_unsigned_int(MBEDTLS_LMOTS_TYPE_LEN,
                                                 key[PUBLIC_KEY_OTSTYPE_OFFSET])
        c1 == [ctx EXCEPT !.params.type = type]
        c2 == [c1 EXCEPT !.params.otstype = otstype]
        root == IF key_size >= PUBLIC_KEY_ROOT_NODE_OFFSET
                                + MBEDTLS_LMS_M_NODE_BYTES(c2.params.type)
                THEN key[PUBLIC_KEY_ROOT_NODE_OFFSET]
                ELSE over_read
    IN  IF key_size < MBEDTLS_LMS_PUBLIC_KEY_LEN(ctx.params.type)
        THEN [ret |-> MBEDTLS_ERR_LMS_BUFFER_TOO_SMALL, ctx |-> ctx]
        ELSE IF type # MBEDTLS_LMS_SHA256_M32_H10
        THEN [ret |-> MBEDTLS_ERR_LMS_BAD_INPUT_DATA, ctx |-> ctx]
        ELSE IF otstype # MBEDTLS_LMOTS_SHA256_N32_W8
        THEN [ret |-> MBEDTLS_ERR_LMS_BAD_INPUT_DATA, ctx |-> c1]
        ELSE [ret |-> OK,
              ctx |-> [c2 EXCEPT
                         !.params.I_key_identifier = key[PUBLIC_KEY_I_KEY_ID_OFFSET],
                         !.T_1_pub_key = root,
                         !.have_public_key = TRUE]]

\* mbedtls_lms_export_public_key.
mbedtls_lms_export_public_key(ctx, key, key_size) ==
    IF key_size < MBEDTLS_LMS_PUBLIC_KEY_LEN(ctx.params.type)
    THEN [ret |-> MBEDTLS_ERR_LMS_BUFFER_TOO_SMALL, key |-> key, key_len |-> 0]
    ELSE IF ~ctx.have_public_key
    THEN [ret |-> MBEDTLS_ERR_LMS_BAD_INPUT_DATA, key |-> key, key_len |-> 0]
    ELSE [ret |-> OK,
          key |-> (PUBLIC_KEY_TYPE_OFFSET :>
                       unsigned_int_to_network_bytes(ctx.params.type,
                                                     MBEDTLS_LMS_TYPE_LEN))
                  @@ (PUBLIC_KEY_OTSTYPE_OFFSET :>
                       unsigned_int_to_network_bytes(ctx.params.otstype,
                                                     MBEDTLS_LMOTS_TYPE_LEN))
                  @@ (PUBLIC_KEY_I_KEY_ID_OFFSET :> ctx.params.I_key_identifier)
                  @@ (PUBLIC_KEY_ROOT_NODE_OFFSET :> ctx.T_1_pub_key),
          key_len |-> MBEDTLS_LMS_PUBLIC_KEY_LEN(ctx.params.type)]

\* mbedtls_lms_calculate_public_key: the parameters are copied before the tree
\* is built, the root and the flag after it.
mbedtls_lms_calculate_public_key(ctx, priv_ctx, hfail) ==
    LET c1 == [ctx EXCEPT !.params = priv_ctx.params]
        t == calculate_merkle_tree(priv_ctx, hfail)
    IN  IF ~priv_ctx.have_private_key
        THEN [ret |-> MBEDTLS_ERR_LMS_BAD_INPUT_DATA, ctx |-> ctx]
        ELSE IF priv_ctx.params.type # MBEDTLS_LMS_SHA256_M32_H10
        THEN [ret |-> MBEDTLS_ERR_LMS_BAD_INPUT_DATA, ctx |-> ctx]
        ELSE IF priv_ctx.params.otstype # MBEDTLS_LMOTS_SHA256_N32_W8
        THEN [ret |-> MBEDTLS_ERR_LMS_BAD_INPUT_DATA, ctx |-> ctx]
        ELSE IF t.ret # OK
        THEN [ret |-> t.ret, ctx |-> c1]
        ELSE [ret |-> OK,
              ctx |-> [c1 EXCEPT !.T_1_pub_key = t.tree[1],
                                 !.have_public_key = TRUE]]

(* ------------------------------ verifier ------------------------------- *)

\* What the collaborators do during one verification: the return value of the
\* candidate-key computation, the hash calls that fail (0: the leaf hash,
\* h + 1: the internal hash at height h), and what the candidate-root buffer
\* on the stack holds before anything is written to it.
CleanEnv == [ots_ret |-> OK, hfail |-> {}, uninit |-> "zero"]

\* A length check that lets a longer buffer through.
sig_size_rejected_if_short(ctx, sig_size) ==
    sig_size < MBEDTLS_LMS_SIG_LEN(ctx.params.type, ctx.params.otstype)

\* The length check of mbedtls_lms_verify.
sig_size_rejected(ctx, sig_size) ==
    sig_size # MBEDTLS_LMS_SIG_LEN(ctx.params.type, ctx.params.otstype)

\* mbedtls_lms_verify.  The return values of the node hashes are not looked
\* at: a hash that fails leaves the candidate buffer as it was.
mbedtls_lms_verify(ctx, msg, sig, sig_size, env) ==
    LET q_leaf_identifier ==
            network_bytes_to_unsigned_int(MBEDTLS_LMOTS_Q_LEAF_ID_LEN,
                                          sig[SIG_Q_LEAF_ID_OFFSET])
        ots_params ==
            [I_key_identifier |-> ctx.params.I_key_identifier,
             q_leaf_identifier |->
                 unsigned_int_to_network_bytes(q_leaf_identifier,
                                               MBEDTLS_LMOTS_Q_LEAF_ID_LEN),
             type |-> ctx.params.otstype]
        Kc == lmots_calculate_public_key_candidate(ots_params, msg,
                                                   sig[SIG_OTS_SIG_OFFSET])
        leaf_id == MERKLE_TREE_INTERNAL_NODE_AM(ctx.params.type) + q_leaf_identifier
        Tc_uninit == IF env.uninit = "stale_root" THEN ctx.T_1_pub_key ELSE Zero
        Tc0 == IF 0 \in env.hfail THEN Tc_uninit
               ELSE create_merkle_leaf_value(ctx.params, Kc, leaf_id)
        RECURSIVE climb(_, _, _)
        climb(Tc, curr_node_id, height) ==
            IF height >= MBEDTLS_LMS_H_TREE_HEIGHT(ctx.params.type) THEN Tc
            ELSE LET parent_node_id == curr_node_id \div 2
                     sibling == sig[SIG_PATH_OFFSET(ctx.params.otstype)
                                    + height * MBEDTLS_LMS_M_NODE_BYTES(ctx.params.type)]
                     left_node == IF curr_node_id % 2 = 1 THEN sibling ELSE Tc
                     right_node == IF curr_node_id % 2 = 1 THEN Tc ELSE sibling
                 IN  climb(IF (height + 1) \in env.hfail THEN Tc
                           ELSE create_merkle_internal_value(ctx.params, left_node,
                                    right_node, parent_node_id),
                           curr_node_id \div 2, height + 1)
    IN  IF ~ctx.have_public_key
        THEN [ret |-> MBEDTLS_ERR_LMS_BAD_INPUT_DATA, ots_invoked |-> FALSE]
        ELSE IF sig_size_rejected(ctx, sig_size)
        THEN [ret |-> MBEDTLS_ERR_LMS_BAD_INPUT_DATA, ots_invoked |-> FALSE]
        ELSE IF ctx.params.type # MBEDTLS_LMS_SHA256_M32_H10
        THEN [ret |-> MBEDTLS_ERR_LMS_BAD_INPUT_DATA, ots_invoked |-> FALSE]
        ELSE IF ctx.params.otstype # MBEDTLS_LMOTS_SHA256_N32_W8
        THEN [ret |-> MBEDTLS_ERR_LMS_BAD_INPUT_DATA, ots_invoked |-> FALSE]
        ELSE IF network_bytes_to_unsigned_int(MBEDTLS_LMOTS_TYPE_LEN,
                    sig[SIG_OTS_SIG_OFFSET + MBEDTLS_LMOTS_SIG_TYPE_OFFSET].type)
                # MBEDTLS_LMOTS_SHA256_N32_W8
        THEN [ret |-> MBEDTLS_ERR_LMS_VERIFY_FAILED, ots_invoked |-> FALSE]
        ELSE IF network_bytes_to_unsigned_int(MBEDTLS_LMS_TYPE_LEN,
                    sig[SIG_TYPE_OFFSET(ctx.params.otstype)])
                # MBEDTLS_LMS_SHA256_M32_H10
        THEN [ret |-> MBEDTLS_ERR_LMS_VERIFY_FAILED, ots_invoked |-> FALSE]
        ELSE IF q_leaf_identifier >= MERKLE_TREE_LEAF_NODE_AM(ctx.params.type)
        THEN [ret |-> MBEDTLS_ERR_LMS_VERIFY_FAILED, ots_invoked |-> FALSE]
        ELSE IF env.ots_ret # OK
        THEN [ret |-> env.ots_ret, ots_invoked |-> TRUE]
        ELSE IF climb(Tc0, leaf_id, 0) # ctx.T_1_pub_key
        THEN [ret |-> MBEDTLS_ERR_LMS_VERIFY_FAILED, ots_invoked |-> TRUE]
        ELSE [ret |-> OK, ots_invoked |-> TRUE]

(* ------------------------------ signer --------------------------------- *)

\* Where key generation is made to fail: nowhere, at either allocation, or in
\* the one-time key generation or public-key derivation of slot idx (the
\* first, the second or the last slot).
NoFault == [kind |-> "none", idx |-> 0]
GenerateFaults(type) ==
    {NoFault, [kind |-> "alloc_private", idx |-> 0], [kind |-> "alloc_public", idx |-> 0]}
    \cup {[kind |-> k, idx |-> i] : k \in {"ots_generate", "ots_public"},
                                    i \in {0, 1, MERKLE_TREE_LEAF_NODE_AM(type) - 1}}

\* What a failed collaborator returns.
FaultRet(fault) ==
    IF fault.kind \in {"alloc_private", "alloc_public"}
    THEN MBEDTLS_ERR_LMS_ALLOC_FAILED ELSE InternalCryptoError

\* The exit path of key generation: the slots below idx are released, then
\* both arrays are handed to mbedtls_free.
generate_exit(ctx, idx) ==
    LET scrub(arr, zero_slot) ==
            IF arr.ptr = "live"
            THEN [arr EXCEPT !.slots = [i \in DOMAIN arr.slots |->
                                           IF i < idx THEN zero_slot ELSE arr.slots[i]]]
            ELSE arr
    IN  [ctx EXCEPT
            !.ots_private_keys = mbedtls_free(scrub(@, lmots_zero_private)),
            !.ots_public_keys = mbedtls_free(scrub(@, lmots_zero_public))]

\* mbedtls_lms_generate_private_key.
mbedtls_lms_generate_private_key(ctx, type, otstype, rng_I, seed, fault) ==
    LET n == MERKLE_TREE_LEAF_NODE_AM(type)
        c1 == [ctx EXCEPT !.params = [type |-> type, otstype |-> otstype,
                                      I_key_identifier |-> rng_I]]
        \* the slots the generation loop has filled when it stops before idx
        \* (with_private: slot idx has its private key already)
        filled(idx, with_private) ==
            [c1 EXCEPT
               !.ots_private_keys =
                   [ptr |-> "live",
                    slots |-> [i \in 0..(n - 1) |->
                                 IF i < idx \/ (i = idx /\ with_private)
                                 THEN lmots_generate_private_key(rng_I, i, seed)
                                 ELSE lmots_zero_private]],
               !.ots_public_keys =
                   [ptr |-> "live",
                    slots |-> [i \in 0..(n - 1) |->
                                 IF i < idx
                                 THEN lmots_calculate_public_key(
                                          lmots_generate_private_key(rng_I, i, seed))
                                 ELSE lmots_zero_public]]]
    IN  IF type # MBEDTLS_LMS_SHA256_M32_H10
        THEN [ret |-> MBEDTLS_ERR_LMS_BAD_INPUT_DATA, ctx |-> ctx]
        ELSE IF otstype # MBEDTLS_LMOTS_SHA256_N32_W8
        THEN [ret |-> MBEDTLS_ERR_LMS_BAD_INPUT_DATA, ctx |-> ctx]
        ELSE IF ctx.have_private_key
        THEN [ret |-> MBEDTLS_ERR_LMS_BAD_INPUT_DATA, ctx |-> ctx]
        ELSE IF fault.kind = "alloc_private"
        THEN [ret |-> FaultRet(fault),
              ctx |-> generate_exit([c1 EXCEPT !.ots_private_keys = NullArray], 0)]
        ELSE IF fault.kind = "alloc_public"
        THEN [ret |-> FaultRet(fault),
              ctx |-> generate_exit(
                          [c1 EXCEPT !.ots_private_keys =
                                         mbedtls_calloc(n, lmots_zero_private),
                                     !.ots_public_keys = NullArray], 0)]
        ELSE IF fault.kind = "ots_generate"
        THEN [ret |-> FaultRet(fault),
              ctx |-> generate_exit(filled(fault.idx, FALSE), fault.idx)]
        ELSE IF fault.kind = "ots_public"
        THEN [ret |-> FaultRet(fault),
              ctx |-> generate_exit(filled(fault.idx, TRUE), fault.idx)]
        ELSE [ret |-> OK,
              ctx |-> [filled(n, FALSE) EXCEPT !.q_next_usable_key = 0,
                                               !.have_private_key = TRUE]]

\* mbedtls_lms_free_private.
mbedtls_lms_free_private(ctx) == ZeroPrivate

\* An exhaustion check that trips one leaf early.
out_of_private_keys_early(ctx) ==
    ctx.q_next_usable_key >= MERKLE_TREE_LEAF_NODE_AM(ctx.params.type) - 1

\* The exhaustion check of mbedtls_lms_sign.
out_of_private_keys(ctx) ==
    ctx.q_next_usable_key >= MERKLE_TREE_LEAF_NODE_AM(ctx.params.type)

\* A counter that skips a leaf with every signature.
advance_counter_by_two(ctx) == [ctx EXCEPT !.q_next_usable_key = @ + 2]

\* A counter that is never advanced.
advance_counter_never(ctx) == ctx

\* An advance that also scrubs the one-time public key of the leaf used.
advance_counter_dropping_public(ctx) ==
    [ctx EXCEPT !.q_next_usable_key = @ + 1,
                !.ots_public_keys.slots[ctx.q_next_usable_key] = lmots_zero_public]

\* ctx->q_next_usable_key += 1.
advance_counter(ctx) == [ctx EXCEPT !.q_next_usable_key = @ + 1]

\* The advanced counter written to the signature instead of the leaf used.
sig_q_leaf_id_advanced(q_leaf_identifier) ==
    unsigned_int_to_network_bytes(q_leaf_identifier + 1, MBEDTLS_LMOTS_Q_LEAF_ID_LEN)

\* The leaf index as written to the signature.
sig_q_leaf_id(q_leaf_identifier) ==
    unsigned_int_to_network_bytes(q_leaf_identifier, MBEDTLS_LMOTS_Q_LEAF_ID_LEN)

\* mbedtls_lms_sign.  The counter is advanced before the one-time signature is
\* made; ots_ret is what the one-time signer returns and hfail the node whose
\* hash fails while the path is computed (0: none).
mbedtls_lms_sign(ctx, msg, sig, sig_size, ots_ret, hfail) ==
    LET q_leaf_identifier == ctx.q_next_usable_key
        c1 == advance_counter(ctx)
        ots == lmots_sign(c1.ots_private_keys.slots[q_leaf_identifier], msg, ots_ret)
        c2 == [c1 EXCEPT !.ots_private_keys.slots[q_leaf_identifier] = ots.slot]
        s1 == [sig EXCEPT ![SIG_OTS_SIG_OFFSET] = ots.sig]
        s2 == [s1 EXCEPT ![SIG_TYPE_OFFSET(ctx.params.otstype)] =
                             unsigned_int_to_network_bytes(ctx.params.type,
                                                           MBEDTLS_LMS_TYPE_LEN)]
        s3 == [s2 EXCEPT ![SIG_Q_LEAF_ID_OFFSET] = sig_q_leaf_id(q_leaf_identifier)]
        p == get_merkle_path(c2,
                 MERKLE_TREE_INTERNAL_NODE_AM(ctx.params.type) + q_leaf_identifier,
                 hfail)
        s4 == [o \in DOMAIN s3 |->
                 IF \E h \in DOMAIN p.path :
                        o = SIG_PATH_OFFSET(ctx.params.otstype)
                            + h * MBEDTLS_LMS_M_NODE_BYTES(ctx.params.type)
                 THEN p.path[(o - SIG_PATH_OFFSET(ctx.params.otstype))
                             \div MBEDTLS_LMS_M_NODE_BYTES(ctx.params.type)]
                 ELSE s3[o]]
    IN  IF ~ctx.have_private_key
        THEN [ret |-> MBEDTLS_ERR_LMS_BAD_INPUT_DATA, ctx |-> ctx, sig |-> sig,
              sig_len |-> 0]
        ELSE IF sig_size < MBEDTLS_LMS_SIG_LEN(ctx.params.type, ctx.params.otstype)
        THEN [ret |-> MBEDTLS_ERR_LMS_BUFFER_TOO_SMALL, ctx |-> ctx, sig |-> sig,
              sig_len |-> 0]
        ELSE IF ctx.params.type # MBEDTLS_LMS_SHA256_M32_H10
        THEN [ret |-> MBEDTLS_ERR_LMS_BAD_INPUT_DATA, ctx |-> ctx, sig |-> sig,
              sig_len |-> 0]
        ELSE IF ctx.params.otstype # MBEDTLS_LMOTS_SHA256_N32_W8
        THEN [ret |-> MBEDTLS_ERR_LMS_BAD_INPUT_DATA, ctx |-> ctx, sig |-> sig,
              sig_len |-> 0]
        ELSE IF out_of_private_keys(ctx)
        THEN [ret |-> MBEDTLS_ERR_LMS_OUT_OF_PRIVATE_KEYS, ctx |-> ctx, sig |-> sig,
              sig_len |-> 0]
        ELSE IF ots.ret # OK
        THEN [ret |-> ots.ret, ctx |-> c2, sig |-> sig, sig_len |-> 0]
        ELSE IF p.ret # OK
        THEN [ret |-> p.ret, ctx |-> c2, sig |-> s3, sig_len |-> 0]
        ELSE [ret |-> OK, ctx |-> c2, sig |-> s4,
              sig_len |-> MBEDTLS_LMS_SIG_LEN(ctx.params.type, ctx.params.otstype)]

(* ------------------------------ state ---------------------------------- *)

VARIABLES
    priv,           \* the mbedtls_lms_private_t
    pub,            \* the mbedtls_lms_public_t
    sig,            \* the caller's signature buffer
    signed_msg,     \* the message whose signature the buffer holds ("none": no
                    \* complete signature)
    last,           \* the last call: its name, return value and what it was given
    issued,         \* the leaf indexes in the signatures returned for the current key
    faults,         \* the collaborator failures so far
    persist_calls,  \* the counter values handed to a persistence collaborator
    calls           \* the sign calls in progress when callers do not serialise

vars == <<priv, pub, sig, signed_msg, last, issued, faults, persist_calls, calls>>

\* A call that is given nothing worth recording.
NoObs == [none |-> TRUE]

\* The threads that call mbedtls_lms_sign on the one private context.
Callers == {"t1", "t2"}

\* A caller outside mbedtls_lms_sign: its locals and its own output buffer.
IdleCall ==
    [pc |-> "idle", msg |-> "none", q_leaf_identifier |-> 0, loaded |-> 0,
     key |-> Zero, sig |-> ZeroSig, ret |-> OK]

\* Both contexts after mbedtls_lms_init_private / mbedtls_lms_init_public.
Init ==
    /\ priv = ZeroPrivate
    /\ pub = ZeroPublic
    /\ sig = ZeroSig
    /\ signed_msg = "none"
    /\ last = [op |-> "init", ret |-> OK, obs |-> NoObs]
    /\ issued = <<>>
    /\ faults = 0
    /\ persist_calls = <<>>
    /\ calls = [t \in Callers |-> IdleCall]

SIG_LEN == MBEDTLS_LMS_SIG_LEN(MBEDTLS_LMS_SHA256_M32_H10, MBEDTLS_LMOTS_SHA256_N32_W8)
PUBLIC_KEY_LEN == MBEDTLS_LMS_PUBLIC_KEY_LEN(MBEDTLS_LMS_SHA256_M32_H10)

(* ------------------------------ private-key actions -------------------- *)

\* A call of mbedtls_lms_generate_private_key with one of the given faults.
Generate(types, otstypes, fault_set) ==
    \E type \in types, otstype \in otstypes, rng_I \in Ids, seed \in Seeds,
       fault \in fault_set :
        \* a call with a rejected identifier returns before anything can fail
        /\ \/ fault = NoFault
           \/ /\ type = MBEDTLS_LMS_SHA256_M32_H10
              /\ otstype = MBEDTLS_LMOTS_SHA256_N32_W8
        /\ (fault # NoFault => faults < MaxFaults)
        /\ faults' = IF fault # NoFault THEN faults + 1 ELSE faults
        /\ LET r == mbedtls_lms_generate_private_key(priv, type, otstype, rng_I, seed, fault)
           IN  /\ priv' = r.ctx
               /\ last' = [op |-> "generate_private_key", ret |-> r.ret, obs |-> NoObs]
               /\ issued' = IF r.ret = OK THEN <<>> ELSE issued
               /\ UNCHANGED <<pub, sig, signed_msg, persist_calls, calls>>

GeneratePrivateKey ==
    Generate({MBEDTLS_LMS_SHA256_M32_H10, LMS_SHA256_M32_H5},
             {MBEDTLS_LMOTS_SHA256_N32_W8, LMOTS_SHA256_N32_W4},
             GenerateFaults(MBEDTLS_LMS_SHA256_M32_H10))

FreePrivate ==
    /\ priv' = mbedtls_lms_free_private(priv)
    /\ last' = [op |-> "free_private", ret |-> OK, obs |-> NoObs]
    /\ issued' = <<>>
    /\ UNCHANGED <<pub, sig, signed_msg, faults, persist_calls, calls>>

\* A call of mbedtls_lms_sign; no persistence collaborator is called in it.
SignWith(sizes, ots_rets, hfails) ==
    \E msg \in Msgs, sig_size \in sizes, ots_ret \in ots_rets, hfail \in hfails :
        \* a call that returns before a collaborator is reached has no failure
        /\ (ots_ret # OK \/ hfail # 0
                => /\ priv.have_private_key
                   /\ sig_size >= SIG_LEN
                   /\ ~out_of_private_keys(priv))
        /\ (ots_ret # OK => hfail = 0)
        /\ (ots_ret # OK \/ hfail # 0 => faults < MaxFaults)
        /\ faults' = IF ots_ret # OK \/ hfail # 0 THEN faults + 1 ELSE faults
        /\ LET r == mbedtls_lms_sign(priv, msg, sig, sig_size, ots_ret, hfail)
           IN  /\ priv' = r.ctx
               /\ sig' = r.sig
               /\ signed_msg' = IF r.ret = OK THEN msg
                               ELSE IF r.sig # sig THEN "none"
                               ELSE signed_msg
               /\ last' = [op |-> "sign", ret |-> r.ret,
                           obs |-> [q_entry |-> priv.q_next_usable_key,
                                    sig_size |-> sig_size,
                                    ots_ret |-> ots_ret,
                                    hash_failed |-> (hfail # 0)]]
               /\ issued' = IF r.ret = OK
                            THEN Append(issued,
                                     network_bytes_to_unsigned_int(
                                         MBEDTLS_LMOTS_Q_LEAF_ID_LEN,
                                         r.sig[SIG_Q_LEAF_ID_OFFSET]))
                            ELSE issued
               /\ UNCHANGED <<pub, persist_calls, calls>>

Sign ==
    SignWith({SIG_LEN - 1, SIG_LEN}, {OK, InternalCryptoError},
             HashFaults(MBEDTLS_LMS_SHA256_M32_H10))

(* ------------------------------ public-key actions --------------------- *)

CalculatePublicKey ==
    \E hfail \in HashFaults(MBEDTLS_LMS_SHA256_M32_H10) :
        /\ (hfail # 0 => priv.have_private_key /\ faults < MaxFaults)
        /\ faults' = IF hfail # 0 THEN faults + 1 ELSE faults
        /\ LET r == mbedtls_lms_calculate_public_key(pub, priv, hfail)
           IN  /\ pub' = r.ctx
               /\ last' = [op |-> "calculate_public_key", ret |-> r.ret,
                           obs |-> [hash_failed |-> (hfail # 0)]]
               /\ UNCHANGED <<priv, sig, signed_msg, issued, persist_calls, calls>>

FreePublic ==
    /\ pub' = ZeroPublic
    /\ last' = [op |-> "free_public", ret |-> OK, obs |-> NoObs]
    /\ UNCHANGED <<priv, sig, signed_msg, issued, faults, persist_calls, calls>>

(* ------------------------------ altered inputs ------------------------- *)

\* A node, key or chain value with one bit changed (changing it back gives
\* the original).
FlipNode(x) == IF Len(x) = 2 /\ x[1] = "flip" THEN x[2] ELSE <<"flip", x>>

\* Another key identifier.
FlipId(I) == IF I = "i1" THEN "i2" ELSE "i1"

\* Another message.
OtherMsg(msg) == IF msg = "m1" THEN "m2" ELSE "m1"

\* One change to what a verification is given: nothing, the message, a field
\* of the signature, a field of the public context, or the length passed.
Unaltered == [kind |-> "none", h |-> 0]
SigAlterations ==
    {[kind |-> k, h |-> 0] : k \in {"msg", "q_in", "q_out", "ots_type", "ots_y", "lms_type"}}
    \cup {[kind |-> "path", h |-> h] : h \in 0..(H_TREE_HEIGHT - 1)}
PubAlterations ==
    {[kind |-> k, h |-> 0] : k \in {"pub_I", "pub_T1", "pub_type", "pub_otstype"}}
SizeAlterations == {[kind |-> k, h |-> 0] : k \in {"size_minus", "size_plus"}}
Alterations == {Unaltered} \cup SigAlterations \cup PubAlterations \cup SizeAlterations

AlterMsg(msg, a) == IF a.kind = "msg" THEN OtherMsg(msg) ELSE msg

AlterSig(s, a) ==
    LET q == network_bytes_to_unsigned_int(MBEDTLS_LMOTS_Q_LEAF_ID_LEN,
                                           s[SIG_Q_LEAF_ID_OFFSET])
        n == MERKLE_TREE_LEAF_NODE_AM(MBEDTLS_LMS_SHA256_M32_H10)
    IN  IF a.kind = "q_in"
        THEN [s EXCEPT ![SIG_Q_LEAF_ID_OFFSET] =
                 unsigned_int_to_network_bytes((q + 1) % n, MBEDTLS_LMOTS_Q_LEAF_ID_LEN)]
        ELSE IF a.kind = "q_out"
        THEN [s EXCEPT ![SIG_Q_LEAF_ID_OFFSET] =
                 unsigned_int_to_network_bytes(q + n, MBEDTLS_LMOTS_Q_LEAF_ID_LEN)]
        ELSE IF a.kind = "ots_type"
        THEN [s EXCEPT ![SIG_OTS_SIG_OFFSET].type =
                 unsigned_int_to_network_bytes(LMOTS_SHA256_N32_W4, MBEDTLS_LMOTS_TYPE_LEN)]
        ELSE IF a.kind = "ots_y"
        THEN [s EXCEPT ![SIG_OTS_SIG_OFFSET].y = FlipNode(@)]
        ELSE IF a.kind = "lms_type"
        THEN [s EXCEPT ![SIG_TYPE_OFFSET(MBEDTLS_LMOTS_SHA256_N32_W8)] =
                 unsigned_int_to_network_bytes(LMS_SHA256_M32_H5, MBEDTLS_LMS_TYPE_LEN)]
        ELSE IF a.kind = "path"
        THEN [s EXCEPT ![SigPathOffset(a.h)] = FlipNode(@)]
        ELSE s

AlterPub(p, a) ==
    IF a.kind = "pub_I" THEN [p EXCEPT !.params.I_key_identifier = FlipId(@)]
    ELSE IF a.kind = "pub_T1" THEN [p EXCEPT !.T_1_pub_key = FlipNode(@)]
    ELSE IF a.kind = "pub_type" THEN [p EXCEPT !.params.type = LMS_SHA256_M32_H5]
    ELSE IF a.kind = "pub_otstype" THEN [p EXCEPT !.params.otstype = LMOTS_SHA256_N32_W4]
    ELSE p

AlterSize(n, a) ==
    IF a.kind = "size_minus" THEN n - 1
    ELSE IF a.kind = "size_plus" THEN n + 1
    ELSE n

\* One change to the bytes of an exported public key.
KeyAlterations ==
    {Unaltered} \cup {[kind |-> k, h |-> 0] :
                         k \in {"key_type", "key_otstype", "key_I", "key_T1"}}

AlterKey(key, a) ==
    IF a.kind = "key_type"
    THEN [key EXCEPT ![PUBLIC_KEY_TYPE_OFFSET] =
             unsigned_int_to_network_bytes(LMS_SHA256_M32_H5, MBEDTLS_LMS_TYPE_LEN)]
    ELSE IF a.kind = "key_otstype"
    THEN [key EXCEPT ![PUBLIC_KEY_OTSTYPE_OFFSET] =
             unsigned_int_to_network_bytes(LMOTS_SHA256_N32_W4, MBEDTLS_LMOTS_TYPE_LEN)]
    ELSE IF a.kind = "key_I"
    THEN [key EXCEPT ![PUBLIC_KEY_I_KEY_ID_OFFSET] = FlipId(@)]
    ELSE IF a.kind = "key_T1"
    THEN [key EXCEPT ![PUBLIC_KEY_ROOT_NODE_OFFSET] = FlipNode(@)]
    ELSE key

(* ------------------------------ verifier-side actions ------------------ *)

\* A call of mbedtls_lms_export_public_key into a zeroed buffer; the bytes
\* written are kept with the call.
ExportPublicKey ==
    \E key_size \in {PUBLIC_KEY_LEN - 1, PUBLIC_KEY_LEN} :
        LET r == mbedtls_lms_export_public_key(pub, ZeroKey, key_size)
        IN  /\ last' = [op |-> "export_public_key", ret |-> r.ret,
                        obs |-> [key |-> r.key, key_len |-> r.key_len]]
            /\ UNCHANGED <<priv, pub, sig, signed_msg, issued, faults, persist_calls, calls>>

\* The bytes a signer's public key has on the wire.
WireKey(priv_ctx) ==
    mbedtls_lms_export_public_key(
        mbedtls_lms_calculate_public_key(ZeroPublic, priv_ctx, 0).ctx,
        ZeroKey, PUBLIC_KEY_LEN).key

\* A call of mbedtls_lms_import_public_key on the wire bytes of the signer's
\* public key, as they are or with one change.  A buffer shorter than the
\* key that passes the length check is read past its end: the byte found
\* there is the right one or another.
ImportPublicKey ==
    /\ priv.have_private_key
    /\ \E a \in KeyAlterations, key_size \in {PUBLIC_KEY_LEN - 1, PUBLIC_KEY_LEN},
          lucky \in BOOLEAN :
        LET key == AlterKey(WireKey(priv), a)
            over_read == IF lucky THEN key[PUBLIC_KEY_ROOT_NODE_OFFSET]
                         ELSE FlipNode(key[PUBLIC_KEY_ROOT_NODE_OFFSET])
            r == mbedtls_lms_import_public_key(pub, key, key_size, over_read)
        IN  /\ (~lucky => /\ key_size < PUBLIC_KEY_LEN
                          /\ key_size >= MBEDTLS_LMS_PUBLIC_KEY_LEN(pub.params.type))
            /\ pub' = r.ctx
            /\ last' = [op |-> "import_public_key", ret |-> r.ret,
                        obs |-> [alt |-> a, key_size |-> key_size]]
            /\ UNCHANGED <<priv, sig, signed_msg, issued, faults, persist_calls, calls>>

\* The message a verification is asked about when nothing is altered.
VerifyMsg == IF signed_msg = "none" THEN "m1" ELSE signed_msg

\* The node hashes of a verification that are made to fail: the leaf hash
\* (0), the last internal hash of the climb, or all of them.
VerifyHashFaults ==
    {{0}, {H_TREE_HEIGHT}, 0 .. H_TREE_HEIGHT}

\* What the candidate buffer on the stack holds before the leaf hash writes
\* it: zero bytes, or the root an earlier verification under this key left
\* in the same frame.
UninitValues == {"zero", "stale_root"}

\* What the collaborators do during the verifications looked at: nothing
\* fails, the one-time collaborator fails, or node hashes fail.  The buffer's
\* first content matters only when the leaf hash fails.
VerifyEnvs ==
    {CleanEnv, [CleanEnv EXCEPT !.ots_ret = InternalCryptoError]}
    \cup {e \in [ots_ret : {OK}, hfail : VerifyHashFaults, uninit : UninitValues] :
              e.uninit = "zero" \/ 0 \in e.hfail}

\* The input the verifications with failing node hashes are run on: the
\* signature with another message than the one it was made for.
HashFaultKinds == {"msg"}

\* A call of mbedtls_lms_verify on the signature buffer, the context and the
\* signed message, as they are or with one change.
Verify ==
    LET base == mbedtls_lms_verify(pub, VerifyMsg, sig, SIG_LEN, CleanEnv)
    IN  \E a \in Alterations, env \in VerifyEnvs :
            LET r == mbedtls_lms_verify(AlterPub(pub, a), AlterMsg(VerifyMsg, a),
                                        AlterSig(sig, a), AlterSize(SIG_LEN, a), env)
            IN  /\ (env.hfail # {} => a.kind \in HashFaultKinds)
                /\ (env.ots_ret # OK \/ env.hfail # {} => r.ots_invoked)
                /\ last' = [op |-> "verify", ret |-> r.ret,
                            obs |-> [alt |-> a, ots_ret |-> env.ots_ret,
                                     hash_failed |-> (env.hfail # {}),
                                     ots_invoked |-> r.ots_invoked,
                                     base_ret |-> base.ret]]
                /\ UNCHANGED <<priv, pub, sig, signed_msg, issued, faults, persist_calls, calls>>

(* ------------------------------ specification -------------------------- *)

\* The signer's life: key generation, signing and public-key derivation, with
\* every collaborator failure.
Next ==
    \/ GeneratePrivateKey
    \/ FreePrivate
    \/ Sign
    \/ CalculatePublicKey

Spec == Init /\ [][Next]_vars

\* The verifier's side: one key pair, signatures made without failures, and
\* the public key derived, exported, imported, verified against and freed.
GenerateKey ==
    Generate({MBEDTLS_LMS_SHA256_M32_H10}, {MBEDTLS_LMOTS_SHA256_N32_W8}, {NoFault})

SignMessage == SignWith({SIG_LEN}, {OK}, {0})

NextPublic ==
    \/ GenerateKey
    \/ SignMessage
    \/ CalculatePublicKey
    \/ ExportPublicKey
    \/ ImportPublicKey
    \/ Verify
    \/ FreePublic

SpecPublic == Init /\ [][NextPublic]_vars

(* ------------------------------ unserialised sign calls ---------------- *)

\* The steps of mbedtls_lms_sign as another thread can see them.  Each caller
\* has its own message and output buffer; the private context is shared.

\* The message each caller signs: two callers, two different messages.
CallerMsgs(t) == IF t = "t1" THEN {"m1"} ELSE {"m2"}

\* The entry checks (lines 695-719), with a buffer of the right length.
SignEnter(t) ==
    /\ calls[t].pc = "idle"
    /\ \E msg \in CallerMsgs(t) :
        LET refused == IF ~priv.have_private_key
                       THEN MBEDTLS_ERR_LMS_BAD_INPUT_DATA
                       ELSE IF priv.params.type # MBEDTLS_LMS_SHA256_M32_H10
                       THEN MBEDTLS_ERR_LMS_BAD_INPUT_DATA
                       ELSE IF priv.params.otstype # MBEDTLS_LMOTS_SHA256_N32_W8
                       THEN MBEDTLS_ERR_LMS_BAD_INPUT_DATA
                       ELSE IF out_of_private_keys(priv)
                       THEN MBEDTLS_ERR_LMS_OUT_OF_PRIVATE_KEYS
                       ELSE OK
        IN  calls' = [calls EXCEPT ![t] =
                        IF refused # OK
                        THEN [@ EXCEPT !.pc = "returned", !.msg = msg, !.ret = refused]
                        ELSE [@ EXCEPT !.pc = "checked", !.msg = msg]]
    /\ UNCHANGED <<priv, pub, sig, signed_msg, last, issued, faults, persist_calls>>

\* q_leaf_identifier = ctx->q_next_usable_key (line 722).
SignReadCounter(t) ==
    /\ calls[t].pc = "checked"
    /\ calls' = [calls EXCEPT ![t].pc = "read",
                              ![t].q_leaf_identifier = priv.q_next_usable_key]
    /\ UNCHANGED <<priv, pub, sig, signed_msg, last, issued, faults, persist_calls>>

\* The load of ctx->q_next_usable_key += 1 (line 726).
SignLoadCounter(t) ==
    /\ calls[t].pc = "read"
    /\ calls' = [calls EXCEPT ![t].pc = "loaded",
                              ![t].loaded = priv.q_next_usable_key]
    /\ UNCHANGED <<priv, pub, sig, signed_msg, last, issued, faults, persist_calls>>

\* The store of ctx->q_next_usable_key += 1 (line 726).
SignStoreCounter(t) ==
    /\ calls[t].pc = "loaded"
    /\ priv' = [priv EXCEPT !.q_next_usable_key =
                   advance_counter([priv EXCEPT !.q_next_usable_key =
                                        calls[t].loaded]).q_next_usable_key]
    /\ calls' = [calls EXCEPT ![t].pc = "stored"]
    /\ UNCHANGED <<pub, sig, signed_msg, last, issued, faults, persist_calls>>

\* mbedtls_lmots_sign on slot q_leaf_identifier (line 728), its first half:
\* the slot is looked at and its key is read.  An index past the array is
\* undefined behaviour, and the call is followed no further.
SignOtsBegin(t) ==
    /\ calls[t].pc = "stored"
    /\ LET q == calls[t].q_leaf_identifier
       IN  calls' = [calls EXCEPT ![t] =
                IF q \notin DOMAIN priv.ots_private_keys.slots
                THEN [@ EXCEPT !.pc = "undefined"]
                ELSE IF ~priv.ots_private_keys.slots[q].have_private_key
                THEN [@ EXCEPT !.pc = "returned",
                               !.ret = lmots_sign(priv.ots_private_keys.slots[q],
                                                  calls[t].msg, OK).ret]
                ELSE [@ EXCEPT !.pc = "signing",
                               !.key = priv.ots_private_keys.slots[q].private_key]]
    /\ UNCHANGED <<priv, pub, sig, signed_msg, last, issued, faults, persist_calls>>

\* mbedtls_lmots_sign, its second half: the signature is written and the slot
\* is scrubbed.
SignOtsEnd(t) ==
    /\ calls[t].pc = "signing"
    /\ LET q == calls[t].q_leaf_identifier
           r == lmots_sign([have_private_key |-> TRUE, private_key |-> calls[t].key],
                           calls[t].msg, OK)
       IN  /\ priv' = [priv EXCEPT !.ots_private_keys.slots[q] = r.slot]
           /\ calls' = [calls EXCEPT ![t].pc = "signed",
                                     ![t].key = Zero,
                                     ![t].sig[SIG_OTS_SIG_OFFSET] = r.sig]
    /\ UNCHANGED <<pub, sig, signed_msg, last, issued, faults, persist_calls>>

\* The type and q fields, the path, and the return (lines 738-759).
SignFinish(t) ==
    /\ calls[t].pc = "signed"
    /\ LET q == calls[t].q_leaf_identifier
           p == get_merkle_path(priv,
                    MERKLE_TREE_INTERNAL_NODE_AM(priv.params.type) + q, 0)
           s1 == [calls[t].sig EXCEPT
                     ![SIG_TYPE_OFFSET(priv.params.otstype)] =
                         unsigned_int_to_network_bytes(priv.params.type,
                                                       MBEDTLS_LMS_TYPE_LEN),
                     ![SIG_Q_LEAF_ID_OFFSET] = sig_q_leaf_id(q)]
           s2 == [o \in DOMAIN s1 |->
                     IF \E h \in DOMAIN p.path : o = SigPathOffset(h)
                     THEN p.path[CHOOSE h \in DOMAIN p.path : o = SigPathOffset(h)]
                     ELSE s1[o]]
       IN  calls' = [calls EXCEPT ![t].pc = "returned", ![t].ret = OK,
                                 ![t].sig = s2]
    /\ UNCHANGED <<priv, pub, sig, signed_msg, last, issued, faults, persist_calls>>

\* A caller whose call met no other call takes its result and is ready to
\* call again; two calls that met are the two that are looked at.
SignLeave(t) ==
    /\ calls[t].pc = "returned"
    /\ \A u \in Callers \ {t} : calls[u].pc = "idle"
    /\ calls' = [calls EXCEPT ![t] = IdleCall]
    /\ UNCHANGED <<priv, pub, sig, signed_msg, last, issued, faults, persist_calls>>

\* The key is generated before any caller signs.
GenerateSharedKey ==
    /\ ~priv.have_private_key
    /\ GenerateKey

NextConcurrent ==
    \/ GenerateSharedKey
    \/ \E t \in Callers :
        \/ SignEnter(t)
        \/ SignReadCounter(t)
        \/ SignLoadCounter(t)
        \/ SignStoreCounter(t)
        \/ SignOtsBegin(t)
        \/ SignOtsEnd(t)
        \/ SignFinish(t)
        \/ SignLeave(t)

SpecConcurrent == Init /\ [][NextConcurrent]_vars


(* ------------------------------ properties ----------------------------- *)

LEAF_COUNT == MERKLE_TREE_LEAF_NODE_AM(MBEDTLS_LMS_SHA256_M32_H10)

\* The return values of a sign call that stops at one of its entry checks.
SignEntryErrors ==
    {MBEDTLS_ERR_LMS_BAD_INPUT_DATA, MBEDTLS_ERR_LMS_BUFFER_TOO_SMALL,
     MBEDTLS_ERR_LMS_OUT_OF_PRIVATE_KEYS}

\* C1: while a generated private key lives (from a successful generate to
\* free_private), q_next_usable_key never decreases; a successful sign raises
\* it by exactly one, and a sign that fails after the advance (in the one-time
\* signer or in the path computation) leaves it raised by one.
C1_CounterMonotonic ==
    [][(priv.have_private_key /\ priv'.have_private_key)
         => /\ priv'.q_next_usable_key >= priv.q_next_usable_key
            /\ (last'.op = "sign" /\ last'.ret = OK
                  => priv'.q_next_usable_key = priv.q_next_usable_key + 1)
            /\ (last'.op = "sign" /\ last'.ret \notin SignEntryErrors \cup {OK}
                  => priv'.q_next_usable_key = priv.q_next_usable_key + 1)]_vars

\* C1 witness: a key that has issued a signature and then had a sign fail
\* after the advance, the counter standing one above its value on entry.
C1_Witness ==
    /\ priv.have_private_key
    /\ last.op = "sign"
    /\ last.ret = InternalCryptoError
    /\ Len(issued) >= 1
    /\ priv.q_next_usable_key = last.obs.q_entry + 1

\* C2: a successful sign writes into the q field of the signature the value
\* q_next_usable_key had on entry and leaves the counter one above it, so the
\* q values of the signatures returned for one key are strictly increasing.
C2_SignatureCarriesEntryQ ==
    /\ (last.op = "sign" /\ last.ret = OK
          => /\ network_bytes_to_unsigned_int(MBEDTLS_LMOTS_Q_LEAF_ID_LEN,
                                              sig[SIG_Q_LEAF_ID_OFFSET])
                = last.obs.q_entry
             /\ priv.q_next_usable_key = last.obs.q_entry + 1
             /\ issued[Len(issued)] = last.obs.q_entry)
    /\ \A i, j \in DOMAIN issued : i < j => issued[i] < issued[j]

\* C2 witness: the second signature of a key has just been returned.
C2_Witness ==
    /\ last.op = "sign"
    /\ last.ret = OK
    /\ Len(issued) >= 2
    /\ last.obs.q_entry >= 1

\* C3: q_next_usable_key never exceeds the number of leaves; with a large
\* enough buffer and collaborators that do not fail, every sign entered below
\* the leaf count succeeds and every sign entered at the leaf count returns
\* OUT_OF_PRIVATE_KEYS with the counter unchanged.
C3_KeyExhaustion ==
    /\ priv.q_next_usable_key <= LEAF_COUNT
    /\ ((/\ last.op = "sign"
         /\ priv.have_private_key
         /\ last.obs.sig_size >= SIG_LEN
         /\ last.obs.ots_ret = OK
         /\ ~last.obs.hash_failed)
          => IF last.obs.q_entry < LEAF_COUNT
             THEN last.ret = OK
             ELSE /\ last.ret = MBEDTLS_ERR_LMS_OUT_OF_PRIVATE_KEYS
                  /\ priv.q_next_usable_key = LEAF_COUNT)

\* C3 witness: every leaf of the key has signed and one more sign was refused.
C3_Witness ==
    /\ last.op = "sign"
    /\ last.ret = MBEDTLS_ERR_LMS_OUT_OF_PRIVATE_KEYS
    /\ Len(issued) = LEAF_COUNT
    /\ priv.q_next_usable_key = LEAF_COUNT

\* C4, as stated: a sign that fails for whatever reason leaves
\* q_next_usable_key at the value it had on entry.
C4_FailedSignKeepsCounter ==
    (last.op = "sign" /\ last.ret # OK)
        => priv.q_next_usable_key = last.obs.q_entry

\* C4, amended: a sign that fails one of its entry checks (missing key, buffer
\* too small, unsupported parameters, exhausted key) leaves q_next_usable_key
\* at the value it had on entry; a sign that fails in the one-time signer or
\* in the Merkle-path computation leaves it one above that value.
C4_FailedSignCounter ==
    /\ (last.op = "sign" /\ last.ret \in SignEntryErrors
          => priv.q_next_usable_key = last.obs.q_entry)
    /\ (last.op = "sign" /\ (last.obs.ots_ret # OK \/ last.obs.hash_failed)
          => /\ last.ret = InternalCryptoError
             /\ priv.q_next_usable_key = last.obs.q_entry + 1)

\* C4 witness: a sign whose path computation failed, the leaf consumed.
C4_Witness ==
    /\ last.op = "sign"
    /\ last.obs.hash_failed
    /\ last.ret # OK
    /\ priv.q_next_usable_key = last.obs.q_entry + 1

\* C5: when a sign has returned success, the persistence collaborator has
\* been handed the advanced counter.
C5_CounterPersistedBeforeReturn ==
    (last.op = "sign" /\ last.ret = OK)
        => /\ persist_calls # <<>>
           /\ persist_calls[Len(persist_calls)] = priv.q_next_usable_key

\* The slots of an array, wherever its memory is now.
Residue(arr) == {arr.slots[i] : i \in DOMAIN arr.slots}

\* C7: after a generate_private_key that failed part-way, every one-time slot
\* has been released (scrubbed), neither array is still allocated, and
\* have_private_key is false.
C7_FailedGenerateReleasesAll ==
    (last.op = "generate_private_key"
     /\ last.ret \notin {OK, MBEDTLS_ERR_LMS_BAD_INPUT_DATA})
        => /\ ~priv.have_private_key
           /\ priv.ots_private_keys.ptr # "live"
           /\ priv.ots_public_keys.ptr # "live"
           /\ Residue(priv.ots_private_keys) \subseteq {lmots_zero_private}
           /\ Residue(priv.ots_public_keys) \subseteq {lmots_zero_public}

\* The public context a signer's key gives: derived, exported and imported
\* into a fresh context.
PublicKeyOf(priv_ctx) ==
    mbedtls_lms_import_public_key(ZeroPublic, WireKey(priv_ctx), PUBLIC_KEY_LEN,
                                  Zero).ctx

\* C6: the signature a successful sign returned for a message, whatever its
\* leaf, verifies for that message under the signer's public key as derived by
\* calculate_public_key and taken through export and import, when no
\* collaborator fails.
C6_SignVerifyRoundTrip ==
    (/\ last.op = "verify"
     /\ last.obs.alt = Unaltered
     /\ last.obs.ots_ret = OK
     /\ ~last.obs.hash_failed
     /\ signed_msg # "none"
     /\ pub = PublicKeyOf(priv))
        => last.ret = OK

\* C6 witness: the signature of the last leaf has verified under the
\* signer's public key.
C6_Witness ==
    /\ last.op = "verify"
    /\ last.ret = OK
    /\ last.obs.alt = Unaltered
    /\ signed_msg # "none"
    /\ issued # <<>>
    /\ issued[Len(issued)] = LEAF_COUNT - 1
    /\ pub = PublicKeyOf(priv)

\* C8: verify returns BAD_INPUT_DATA for a context without a public key, a
\* signature length other than the signature length, or a context type that
\* is not supported; then VERIFY_FAILED for an embedded one-time type or an
\* LMS type that does not match, or a leaf index of 2^H or more; and only a
\* call that passes all of these reaches the one-time collaborator.
C8_VerifyCheckOrder ==
    last.op = "verify" =>
        LET a == last.obs.alt
            p == AlterPub(pub, a)
            s == AlterSig(sig, a)
        IN  IF ~p.have_public_key
               \/ AlterSize(SIG_LEN, a) # SIG_LEN
               \/ p.params.type # MBEDTLS_LMS_SHA256_M32_H10
               \/ p.params.otstype # MBEDTLS_LMOTS_SHA256_N32_W8
            THEN last.ret = MBEDTLS_ERR_LMS_BAD_INPUT_DATA /\ ~last.obs.ots_invoked
            ELSE IF \/ network_bytes_to_unsigned_int(MBEDTLS_LMOTS_TYPE_LEN,
                           s[SIG_OTS_SIG_OFFSET].type)
                       # MBEDTLS_LMOTS_SHA256_N32_W8
                    \/ network_bytes_to_unsigned_int(MBEDTLS_LMS_TYPE_LEN,
                           s[SIG_TYPE_OFFSET(MBEDTLS_LMOTS_SHA256_N32_W8)])
                       # MBEDTLS_LMS_SHA256_M32_H10
                    \/ network_bytes_to_unsigned_int(MBEDTLS_LMOTS_Q_LEAF_ID_LEN,
                           s[SIG_Q_LEAF_ID_OFFSET]) >= LEAF_COUNT
            THEN last.ret = MBEDTLS_ERR_LMS_VERIFY_FAILED /\ ~last.obs.ots_invoked
            ELSE last.obs.ots_invoked

\* C8 witness: a signature that verifies was offered with one byte more than
\* its length and was turned down before the one-time collaborator was asked.
C8_Witness ==
    /\ last.op = "verify"
    /\ last.obs.base_ret = OK
    /\ last.obs.alt.kind = "size_plus"
    /\ last.ret = MBEDTLS_ERR_LMS_BAD_INPUT_DATA
    /\ ~last.obs.ots_invoked

\* The single changes C9 speaks of.
C9Kinds == {"msg", "q_in", "q_out", "ots_y", "ots_type", "lms_type", "path",
            "pub_I", "pub_T1"}

\* C9: when (public key, message, signature) is accepted, a verification of
\* the same with one change to the message, the leaf index, the one-time
\* signature bytes, the type field, a path node or the key's I or T1 returns
\* exactly VERIFY_FAILED, also when the one-time collaborator reports an error.
C9_AnyChangeVerifyFailed ==
    (/\ last.op = "verify"
     /\ last.obs.base_ret = OK
     /\ last.obs.alt.kind \in C9Kinds)
        => last.ret = MBEDTLS_ERR_LMS_VERIFY_FAILED

\* C10: a public context that holds a key is altered by nothing but
\* free_public: not by verify or export, and not by a further import or
\* calculate_public_key, successful or failing.
C10_PublicContextImmutable ==
    [][pub.have_public_key /\ last'.op # "free_public" => pub' = pub]_vars

\* The 56 bytes lms_type || ots_type || I || T[1] of a public context.
WireLayout(ctx) ==
    (0 :> unsigned_int_to_network_bytes(ctx.params.type, 4))
    @@ (4 :> unsigned_int_to_network_bytes(ctx.params.otstype, 4))
    @@ (8 :> ctx.params.I_key_identifier)
    @@ (24 :> ctx.T_1_pub_key)

\* C11: for every public context that holds a key, export_public_key gives
\* the 56 bytes lms_type || ots_type || I || T[1]; import_public_key of those
\* bytes into a fresh context succeeds and gives a context with the same
\* lms_type, ots_type, I and T[1] and have_public_key set; and exporting that
\* context gives the same bytes again.
C11_PublicKeyRoundTrip ==
    pub.have_public_key =>
        LET e == mbedtls_lms_export_public_key(pub, ZeroKey, PUBLIC_KEY_LEN)
            i == mbedtls_lms_import_public_key(ZeroPublic, e.key, e.key_len, Zero)
            e2 == mbedtls_lms_export_public_key(i.ctx, ZeroKey, PUBLIC_KEY_LEN)
        IN  /\ e.ret = OK
            /\ e.key_len = 56
            /\ e.key = WireLayout(pub)
            /\ i.ret = OK
            /\ i.ctx.params = pub.params
            /\ i.ctx.T_1_pub_key = pub.T_1_pub_key
            /\ i.ctx.have_public_key
            /\ e2.ret = OK
            /\ e2.key = e.key

\* C11 witness: a context that holds a key other than the one it was first
\* given has just been exported, and the bytes import into a fresh context
\* as that same key.
C11_Witness ==
    /\ pub.have_public_key
    /\ pub # PublicKeyOf(priv)
    /\ last.op = "export_public_key"
    /\ last.ret = OK
    /\ last.obs.key_len = 56
    /\ mbedtls_lms_import_public_key(ZeroPublic, last.obs.key, last.obs.key_len,
                                     Zero).ctx = pub

\* The root calculate_public_key derives from a private context.
RootOf(priv_ctx) ==
    mbedtls_lms_calculate_public_key(ZeroPublic, priv_ctx, 0).ctx.T_1_pub_key

\* C12: a sign call, successful or not, leaves everything in the private
\* context as it was except q_next_usable_key and the one-time private slot
\* at the index it consumes: the parameters with I, have_private_key, every
\* one-time public key and every other one-time private slot; so
\* calculate_public_key derives the same T[1] after it as before.
C12_SignFrame ==
    [][last'.op = "sign"
         => /\ priv'.params = priv.params
            /\ priv'.have_private_key = priv.have_private_key
            /\ priv'.ots_public_keys = priv.ots_public_keys
            /\ priv'.ots_private_keys.ptr = priv.ots_private_keys.ptr
            /\ DOMAIN priv'.ots_private_keys.slots = DOMAIN priv.ots_private_keys.slots
            /\ \A i \in DOMAIN priv.ots_private_keys.slots :
                   i # priv.q_next_usable_key
                     => priv'.ots_private_keys.slots[i] = priv.ots_private_keys.slots[i]
            /\ RootOf(priv') = RootOf(priv)]_vars

\* C12 witness: after two signatures or more, the leaves used are scrubbed,
\* the last leaf still has its key, and the public key derived at some point
\* before is the one the private context still gives.
C12_Witness ==
    /\ last.op = "sign"
    /\ last.ret = OK
    /\ Len(issued) >= 2
    /\ priv.ots_private_keys.slots[0] = lmots_zero_private
    /\ priv.ots_private_keys.slots[LEAF_COUNT - 1].have_private_key
    /\ pub.have_public_key
    /\ pub.T_1_pub_key = RootOf(priv)

\* Two unserialised calls have both returned a signature for one leaf.
LeafReused(t, u) ==
    /\ t # u
    /\ calls[t].pc = "returned"
    /\ calls[u].pc = "returned"
    /\ calls[t].ret = OK
    /\ calls[u].ret = OK
    /\ calls[t].q_leaf_identifier = calls[u].q_leaf_identifier

\* C13: two sign calls on one private context that are not serialised can
\* both use one leaf index q and both return a signature for it; whenever the
\* two calls have done so, both signatures carry q and are one-time
\* signatures by the same leaf key of different messages, and the counter
\* stands at q + 1 or q + 2.
C13_UnserialisedSignReusesLeaf ==
    \A t, u \in Callers :
        LeafReused(t, u) =>
            LET q == calls[t].q_leaf_identifier
            IN  /\ priv.q_next_usable_key \in {q + 1, q + 2}
                /\ \A c \in {t, u} :
                       network_bytes_to_unsigned_int(MBEDTLS_LMOTS_Q_LEAF_ID_LEN,
                           calls[c].sig[SIG_Q_LEAF_ID_OFFSET]) = q
                /\ calls[t].sig[SIG_OTS_SIG_OFFSET]
                   = lmots_signature(lmots_generate_private_key(
                                         priv.params.I_key_identifier, q, "s1"),
                                     calls[t].msg)
                /\ calls[t].msg # calls[u].msg
                /\ calls[t].sig[SIG_OTS_SIG_OFFSET] # calls[u].sig[SIG_OTS_SIG_OFFSET]

\* C13 witness: both callers hold a signature for the same leaf, and the
\* counter has moved by one only.
C13_Witness ==
    \E t, u \in Callers :
        /\ LeafReused(t, u)
        /\ priv.q_next_usable_key = calls[t].q_leaf_identifier + 1

\* C14: a verification in which a node hash failed, the leaf hash or an
\* internal hash of the climb, returns VERIFY_FAILED and never success.
C14_FailedHashVerifyFailed ==
    (/\ last.op = "verify"
     /\ last.obs.hash_failed)
        => last.ret = MBEDTLS_ERR_LMS_VERIFY_FAILED

====
